---- MODULE Spec2Model ----
(***************************************************************************)
(* Model of the voice dictation widget (component Home) in its four source *)
(* variants:                                                               *)
(*   A = src/app/page.tsx                                                  *)
(*   B = src/unnamed/part_000 lines 1-289                                  *)
(*   C = src/unnamed/part_000 lines 291-548                                *)
(*   D = src/unnamed/part_001                                              *)
(* The speech engine (SpeechRecognition) is the platform's black box: an   *)
(* instance is idle until start(), runs until it ends, and delivers its    *)
(* result / error / end callbacks one at a time.  Every handler is one     *)
(* action; the action includes the render that React commits after the     *)
(* handler and the effect with dependency [isListening] that this render   *)
(* re-runs (cleanup of the previous effect, then a new engine instance).   *)
(* Text is a sequence of one-character strings.                            *)
(***************************************************************************)
EXTENDS Integers, Sequences, FiniteSets, TLC

VARIABLES
    variant,      \* which source variant is running
    capable,      \* window.SpeechRecognition || window.webkitSpeechRecognition exists
    mounted,      \* the component is mounted
    supported,    \* useState supported (after the mount effect)
    listening,    \* useState isListening
    word,         \* useState word (A, C, D) / transcript (B)
    spelled,      \* useState spelledText (B) / spelling (D)
    history,      \* useState history (A, C)
    interim,      \* useState interim (A, C, D)
    error,        \* useState error
    engines,      \* the SpeechRecognition instances that are reachable: the one in
                  \* recognitionRef and those with callbacks still to come
    ref,          \* recognitionRef.current: index into engines, 0 = null
    timers,       \* pending timers: "debounce" (timeoutRef), "restart" (restartTimeoutRef)
    lastOp,       \* history: the handler that ran last
    ev,           \* history (SpecData): event.results of the result event
                  \*          delivered last; <<>> before the first and in Spec
    fresh,        \* history: a non-empty interim result arrived less than 2 s ago
                  \*          and no final result, error or explicit stop since
    clk,          \* (SpecTime) cd: the ages in seconds of the pending debounce
                  \*   countdowns, the one timeoutRef refers to last; since: the
                  \*   seconds since the last non-empty interim result, at most
                  \*   DebounceSeconds; cancelled: the last handler cleared a
                  \*   pending countdown.  Constant in Spec and SpecData.
    constructed,  \* history: the last step ran new SpeechRecognition()
    startCalled,  \* history: the last handler called start() on an engine
    uncaught,     \* history: the last handler let an exception escape
    errSince,     \* history: an error callback ran since the last toggleListening
    quick         \* history: 1 after a successful start toggle, 2 after the stop
                  \*          toggle that follows it with no callback in between

vars == <<variant, capable, mounted, supported, listening, word, spelled,
          history, interim, error, engines, ref, timers, lastOp, ev, fresh, clk,
          constructed,
          startCalled, uncaught, errSince, quick>>

Variants == {"A", "B", "C", "D"}

\* Bounds of the model.
MaxInst == 3
MaxResults == 2

MAX_HISTORY == 5

\* setTimeout(..., 2000) of the interim branch, in seconds
DebounceSeconds == 2

(***************************************************************************)
(* Text: trim, case mapping, title case, spelling.                         *)
(***************************************************************************)
LowerLetters == <<"a", "b", "d", "e", "h", "l", "o", "r", "w">>
UpperLetters == <<"A", "B", "D", "E", "H", "L", "O", "R", "W">>

Chars == {LowerLetters[k] : k \in 1..Len(LowerLetters)}
             \cup {UpperLetters[k] : k \in 1..Len(UpperLetters)} \cup {" "}

toUpperCase(c) ==
    IF \E k \in 1..Len(LowerLetters) : LowerLetters[k] = c
    THEN UpperLetters[CHOOSE k \in 1..Len(LowerLetters) : LowerLetters[k] = c]
    ELSE c
toLowerCase(c) ==
    IF \E k \in 1..Len(UpperLetters) : UpperLetters[k] = c
    THEN LowerLetters[CHOOSE k \in 1..Len(UpperLetters) : UpperLetters[k] = c]
    ELSE c

UpperStr(s) == [k \in 1..Len(s) |-> toUpperCase(s[k])]
LowerStr(s) == [k \in 1..Len(s) |-> toLowerCase(s[k])]

RECURSIVE TrimLeft(_)
TrimLeft(s) == IF s # <<>> /\ Head(s) = " " THEN TrimLeft(Tail(s)) ELSE s

RECURSIVE TrimRight(_)
TrimRight(s) ==
    IF s # <<>> /\ s[Len(s)] = " " THEN TrimRight(SubSeq(s, 1, Len(s) - 1)) ELSE s

Trim(s) == TrimRight(TrimLeft(s))

\* the title case without the toLowerCase() of the remainder
TitleCaseFirstOnly(text) ==
    IF text = <<>> THEN <<>>
    ELSE <<toUpperCase(Head(text))>> \o Tail(text)

\* text.charAt(0).toUpperCase() + text.slice(1).toLowerCase()
TitleCase(text) ==
    IF text = <<>> THEN <<>>
    ELSE <<toUpperCase(Head(text))>> \o LowerStr(Tail(text))

\* s.split("").join(sep)
RECURSIVE JoinChars(_, _)
JoinChars(s, sep) ==
    IF Len(s) <= 1 THEN s
    ELSE <<Head(s)>> \o sep \o JoinChars(Tail(s), sep)

\* spellWord joining the characters of the untrimmed text
spellWordNoTrim(text) ==
    IF Trim(text) = <<>> THEN <<>>
    ELSE JoinChars(UpperStr(text), <<" ">>)

\* variant B: spellWord
spellWord(text) ==
    IF Trim(text) = <<>> THEN <<>>
    ELSE JoinChars(UpperStr(Trim(text)), <<" ">>)

\* variant D: titleCase.split("").join("  ")
SpellD(titleCase) == JoinChars(titleCase, <<" ", " ">>)

\* the new entry put in front with no slice(0, MAX_HISTORY)
PushHistoryNoSlice(titleCase, prev) == <<titleCase>> \o prev

\* the new entry put behind the previous ones
PushHistoryAtTail(titleCase, prev) ==
    LET all == prev \o <<titleCase>>
    IN  SubSeq(all, 1, IF Len(all) < MAX_HISTORY THEN Len(all) ELSE MAX_HISTORY)

\* [titleCase, ...prev].slice(0, MAX_HISTORY)
PushHistory(titleCase, prev) ==
    LET all == <<titleCase>> \o prev
    IN  SubSeq(all, 1, IF Len(all) < MAX_HISTORY THEN Len(all) ELSE MAX_HISTORY)

(***************************************************************************)
(* Recognition events: event.results is a non-empty list of entries, each  *)
(* with isFinal and the transcript of its first alternative.               *)
(***************************************************************************)
Transcripts == { <<" ">>, <<"a", "B">>, <<" ", "b", " ">> }

Entries == [isFinal : BOOLEAN, transcript : Transcripts]

ResultLists == UNION { [1..n -> Entries] : n \in 1..MaxResults }

\* the lists an event is drawn from: A, C and D read nothing but the last
\* entry, so for them the one-entry lists already give every outcome
EventLists(v) ==
    IF v = "B" THEN ResultLists ELSE {r \in ResultLists : Len(r) = 1}

\* the events of the data specification: the same entries over more texts
HelloWorld == <<"h", "e", "l", "l", "o", " ", "w", "o", "r", "l", "d">>

DataTranscripts == Transcripts \cup {HelloWorld}

DataEntries == [isFinal : BOOLEAN, transcript : DataTranscripts]

DataLists(v) ==
    UNION { [1..n -> DataEntries] : n \in 1..(IF v = "B" THEN MaxResults ELSE 1) }

\* the loop prepending where it has to append: the entries come out reversed
RECURSIVE FoldFinalReversed(_, _)
FoldFinalReversed(results, i) ==
    IF i = 0 THEN <<>>
    ELSE IF results[i].isFinal
         THEN results[i].transcript \o FoldFinalReversed(results, i - 1)
         ELSE FoldFinalReversed(results, i - 1)

\* variant B: the loop over event.results from the last index down to 0
RECURSIVE FoldFinal(_, _)
FoldFinal(results, i) ==
    IF i = 0 THEN <<>>
    ELSE IF results[i].isFinal
         THEN FoldFinal(results, i - 1) \o results[i].transcript
         ELSE FoldFinal(results, i - 1)

RECURSIVE FoldInterim(_, _)
FoldInterim(results, i) ==
    IF i = 0 THEN <<>>
    ELSE IF results[i].isFinal
         THEN FoldInterim(results, i - 1)
         ELSE FoldInterim(results, i - 1) \o results[i].transcript

\* finalTranscript || interimTranscript
FullText(results) ==
    IF FoldFinal(results, Len(results)) # <<>>
    THEN FoldFinal(results, Len(results))
    ELSE FoldInterim(results, Len(results))

(***************************************************************************)
(* Fixed texts.                                                            *)
(***************************************************************************)
NotSupportedText(v) ==
    CASE v = "A" -> ""
      [] v = "B" -> "Speech recognition not supported in this browser"
      [] OTHER   -> "Speech recognition not supported"

StartFailureText(v) ==
    IF v = "B" THEN "Failed to start recognition" ELSE "Failed to start"

\* onerror reporting the text of the catch block of toggleListening
GenericErrorTextOfStart(v) == StartFailureText(v)

GenericErrorText(v) ==
    IF v = "B" THEN "Error occurred during recognition" ELSE "Error occurred"

(***************************************************************************)
(* The engine instances and the requests the widget sends them.            *)
(*   st = "idle"     constructed or ended, not started                     *)
(*        "running"  started, no stop()/abort() received, no error yet     *)
(*        "stopping" stop() or abort() received, end callback pending      *)
(*        "failed"   error callback delivered, end callback pending        *)
(*   isL = the value of isListening that the instance's callbacks closed   *)
(*         over (the render whose effect constructed the instance)         *)
(***************************************************************************)
NewEngine(isL) == [st |-> "idle", isL |-> isL]

SetSt(eng, j, s) == [eng EXCEPT ![j].st = s]

\* start() throws on an instance that is already started, and may throw anyway
StartThrows(eng, j, throws) ==
    IF j = 0 THEN FALSE ELSE IF eng[j].st # "idle" THEN TRUE ELSE throws

\* the engines after a call of recognitionRef.current?.start() / recognition.start()
AfterStart(eng, j, throws) ==
    IF j = 0 THEN eng
    ELSE IF StartThrows(eng, j, throws) THEN eng ELSE SetSt(eng, j, "running")

\* stop() and abort() that return normally: a running instance winds down
AfterStop(eng, j) ==
    IF j = 0 THEN eng
    ELSE IF eng[j].st = "running" THEN SetSt(eng, j, "stopping") ELSE eng

\* mutant: the end callback restarts without looking at isListening
EndAlwaysRestarts(i) == TRUE

\* the isListening that the end callback of instance i reads (its closure)
EndClosureListening(i) == engines[i].isL

(***************************************************************************)
(* Per-variant structure of the component.                                 *)
(***************************************************************************)
\* the effect returns a cleanup that aborts recognitionRef.current (B, C)
CleanupAborts(v) == v \in {"B", "C"}

\* the cleanup clears restartTimeoutRef (C)
CleanupClearsRestart(v) == v = "C"

\* the stop branch of toggleListening wraps stop() in try/catch (A, C)
StopGuarded(v) == v \in {"A", "C"}

\* the variant keeps the interim flag
HasInterim(v) == v \in {"A", "C", "D"}

\* the interim branch of onresult (re)starts the 2 s countdown (C, D)
HasDebounce(v) == v \in {"C", "D"}

\* mutant: the controls are rendered without the "not supported" return
ControlAlwaysRendered == TRUE

\* the controls (toggle, clear) are rendered only past the "not supported" return
ControlRendered == supported

\* a state setter called on the unmounted component changes nothing
Set(cur, new) == IF mounted THEN new ELSE cur

(***************************************************************************)
(* The render after a handler that changed isListening: the effect with    *)
(* dependency [isListening] runs its previous cleanup, then its body,      *)
(* which constructs a new instance and stores it in recognitionRef.        *)
(***************************************************************************)
Rerender(eng, r, tm, newL) ==
    IF ~(mounted /\ newL # listening)
    THEN [engines |-> eng, ref |-> r, timers |-> tm]
    ELSE LET cleaned == IF CleanupAborts(variant) THEN AfterStop(eng, r) ELSE eng
             tm2 == IF CleanupClearsRestart(variant) THEN tm \ {"restart"} ELSE tm
         IN  IF capable
             THEN [engines |-> Append(cleaned, NewEngine(newL)),
                   ref |-> Len(cleaned) + 1, timers |-> tm2]
             ELSE [engines |-> cleaned, ref |-> r, timers |-> tm2]

\* the effect runs again (and constructs an instance) after this change
Constructs(newL) == mounted /\ newL # listening /\ capable

\* the model holds at most MaxInst reachable instances at a time
CanRender(newL) == (mounted /\ newL # listening) => Len(engines) < MaxInst

(***************************************************************************)
(* An instance that is idle and not in recognitionRef is referenced by     *)
(* nothing and gets no callback any more: it is garbage and leaves the     *)
(* model.  Kept instances keep their order.                                *)
(***************************************************************************)
Reachable(eng, r) == {i \in 1..Len(eng) : eng[i].st # "idle" \/ i = r}

Rank(K, i) == Cardinality({k \in K : k <= i})

Collect(eng, r) ==
    LET K == Reachable(eng, r)
    IN  [engines |-> [k \in 1..Cardinality(K) |->
                         eng[CHOOSE i \in K : Rank(K, i) = k]],
         ref |-> IF r = 0 THEN 0 ELSE Rank(K, r)]

Live(i) == engines[i].st \in {"running", "stopping"}

NotImmediate == IF quick = 1 THEN 0 ELSE quick

(***************************************************************************)
(* Init: the component is mounted and its mount effect has run.            *)
(***************************************************************************)
Init ==
    /\ variant \in Variants
    /\ capable \in BOOLEAN
    /\ mounted = TRUE
    /\ supported = capable
    /\ listening = FALSE
    /\ word = <<>>
    /\ spelled = <<>>
    /\ history = <<>>
    /\ interim = FALSE
    /\ error = IF capable THEN "" ELSE NotSupportedText(variant)
    /\ engines = IF capable THEN <<NewEngine(FALSE)>> ELSE <<>>
    /\ ref = IF capable THEN 1 ELSE 0
    /\ timers = {}
    /\ lastOp = "mount"
    /\ ev = <<>>
    /\ fresh = FALSE
    /\ clk = [cd |-> <<>>, since |-> DebounceSeconds, cancelled |-> FALSE]
    /\ constructed = capable
    /\ startCalled = FALSE
    /\ uncaught = FALSE
    /\ errSince = FALSE
    /\ quick = 0

(***************************************************************************)
(* toggleListening, start branch (isListening = false).                    *)
(***************************************************************************)
\* mutant: the catch block does not take back the optimistic setInterim(true)
StartInterimNoRollback(v, thrown) ==
    CASE v \in {"A", "C"} -> TRUE
      [] v = "D" -> FALSE
      [] OTHER -> interim

\* interim after the start branch
StartInterim(v, thrown) ==
    CASE v \in {"A", "C"} -> ~thrown
      [] v = "D" -> FALSE
      [] OTHER -> interim

\* isListening after the start branch
StartListening(v, thrown) ==
    IF thrown THEN FALSE
    ELSE IF v = "C" THEN ref # 0 ELSE TRUE

ToggleStart(throws) ==
    /\ mounted /\ ControlRendered /\ ~listening
    /\ variant = "A" => ref # 0
    /\ LET thrown == StartThrows(engines, ref, throws)
           newL == StartListening(variant, thrown)
           rr == Rerender(AfterStart(engines, ref, throws), ref, timers, newL)
           gc == Collect(rr.engines, rr.ref)
       IN  /\ CanRender(newL)
           /\ constructed' = Constructs(newL)
           /\ listening' = newL
           /\ error' = IF thrown THEN StartFailureText(variant) ELSE ""
           /\ word' = IF variant = "B" THEN word ELSE <<>>
           /\ spelled' = IF variant = "D" THEN <<>> ELSE spelled
           /\ interim' = StartInterim(variant, thrown)
           /\ engines' = gc.engines
           /\ ref' = gc.ref
           /\ timers' = rr.timers
           /\ lastOp' = IF thrown THEN "toggleStartThrow" ELSE "toggleStart"
           /\ ev' = <<>>
           /\ UNCHANGED clk
           /\ startCalled' = (ref # 0)
           /\ quick' = IF thrown THEN 0 ELSE 1
    /\ uncaught' = FALSE
    /\ errSince' = FALSE
    /\ UNCHANGED <<variant, capable, mounted, supported, history, fresh>>

(***************************************************************************)
(* toggleListening, stop branch (isListening = true).                      *)
(***************************************************************************)
\* the exception of stop() leaves toggleListening
StopEscapes(v, throws) == throws /\ ~StopGuarded(v)

ToggleStop(throws) ==
    /\ mounted /\ ControlRendered /\ listening
    /\ variant = "A" => ref # 0
    /\ LET escaped == StopEscapes(variant, throws)
           newL == IF escaped THEN listening ELSE FALSE
           eng == IF throws THEN engines ELSE AfterStop(engines, ref)
           rr == Rerender(eng, ref, timers, newL)
           gc == Collect(rr.engines, rr.ref)
       IN  /\ CanRender(newL)
           /\ constructed' = Constructs(newL)
           /\ listening' = newL
           /\ interim' = IF escaped \/ ~HasInterim(variant) THEN interim ELSE FALSE
           /\ engines' = gc.engines
           /\ ref' = gc.ref
           /\ timers' = rr.timers
           /\ uncaught' = escaped
           /\ fresh' = IF escaped THEN fresh ELSE FALSE
    /\ lastOp' = IF throws THEN "toggleStopThrow" ELSE "toggleStop"
    /\ ev' = <<>>
    /\ UNCHANGED clk
    /\ startCalled' = FALSE
    /\ errSince' = FALSE
    /\ quick' = IF quick = 1 THEN 2 ELSE 0
    /\ UNCHANGED <<variant, capable, mounted, supported, word, spelled, history, error>>

(***************************************************************************)
(* clearText (B) / clear (D).                                              *)
(***************************************************************************)
Clear ==
    /\ mounted /\ ControlRendered
    /\ variant \in {"B", "D"}
    /\ word' = <<>>
    /\ spelled' = <<>>
    /\ error' = ""
    /\ interim' = IF variant = "D" THEN FALSE ELSE interim
    /\ lastOp' = "clear"
    /\ ev' = <<>>
    /\ UNCHANGED clk
    /\ constructed' = FALSE
    /\ startCalled' = FALSE
    /\ uncaught' = FALSE
    /\ quick' = NotImmediate
    /\ UNCHANGED <<variant, capable, mounted, supported, listening, history,
                   engines, ref, timers, errSince, fresh>>

(***************************************************************************)
(* onresult of instance i.  A, C, D read the last entry of event.results;  *)
(* B folds the whole list.                                                 *)
(***************************************************************************)
LastResult(results) == results[Len(results)]

\* the trimmed transcript of the last entry
LastText(results) == Trim(LastResult(results).transcript)

\* the final branch sets word (and history, spelling) only for a non-empty text
FinalWord(results) == LastResult(results).isFinal /\ LastText(results) # <<>>

\* the interim branch with a non-empty text
InterimSeen(results) == ~LastResult(results).isFinal /\ LastText(results) # <<>>

\* the 2 s window: opened by a non-empty interim entry, closed by a final one
ResultFresh(results) ==
    IF LastResult(results).isFinal THEN FALSE
    ELSE IF LastText(results) # <<>> THEN TRUE ELSE fresh

ResultInterim(results) ==
    IF LastResult(results).isFinal THEN FALSE
    ELSE IF LastText(results) # <<>> THEN TRUE ELSE interim

OnResult(i, results) ==
    /\ Live(i)
    /\ word' = Set(word, CASE variant = "B" -> FullText(results)
                           [] FinalWord(results) -> TitleCase(LastText(results))
                           [] OTHER -> word)
    /\ spelled' = Set(spelled,
                      CASE variant = "B" -> spellWord(FullText(results))
                        [] variant = "D" /\ FinalWord(results) ->
                               SpellD(TitleCase(LastText(results)))
                        [] OTHER -> spelled)
    /\ history' = Set(history,
                      IF variant \in {"A", "C"} /\ FinalWord(results)
                      THEN PushHistory(TitleCase(LastText(results)), history)
                      ELSE history)
    /\ interim' = Set(interim, IF HasInterim(variant) THEN ResultInterim(results)
                               ELSE interim)
    /\ timers' = IF HasDebounce(variant) /\ InterimSeen(results)
                 THEN timers \cup {"debounce"} ELSE timers
    /\ fresh' = ResultFresh(results)
    /\ lastOp' = "result"
    /\ constructed' = FALSE
    /\ startCalled' = FALSE
    /\ uncaught' = FALSE
    /\ quick' = NotImmediate
    /\ UNCHANGED <<variant, capable, mounted, supported, listening, error,
                   engines, ref, errSince>>

(***************************************************************************)
(* onerror of instance i; the engine delivers its end callback afterwards. *)
(***************************************************************************)
OnError(i) ==
    /\ Live(i)
    /\ CanRender(FALSE)
    /\ LET rr == Rerender(SetSt(engines, i, "failed"), ref, timers, FALSE)
           gc == Collect(rr.engines, rr.ref)
       IN  /\ engines' = gc.engines
           /\ ref' = gc.ref
           /\ timers' = rr.timers
    /\ constructed' = Constructs(FALSE)
    /\ error' = Set(error, GenericErrorText(variant))
    /\ listening' = Set(listening, FALSE)
    /\ interim' = Set(interim, IF HasInterim(variant) THEN FALSE ELSE interim)
    /\ lastOp' = "error"
    /\ ev' = <<>>
    /\ UNCHANGED clk
    /\ startCalled' = FALSE
    /\ uncaught' = FALSE
    /\ errSince' = TRUE
    /\ fresh' = FALSE
    /\ quick' = NotImmediate
    /\ UNCHANGED <<variant, capable, mounted, supported, word, spelled, history>>

(***************************************************************************)
(* onend of instance i.  The handler restarts when the isListening of its  *)
(* closure is true: at once (A restarts its own instance, B and D the      *)
(* instance in recognitionRef), or through restartTimeoutRef (C).          *)
(***************************************************************************)
\* the instance the restart calls start() on
RestartTarget(i) == IF variant = "A" THEN i ELSE ref

\* the end callback calls start() itself
EndRestartsNow(i) == EndClosureListening(i) /\ variant # "C"

OnEnd(i, throws) ==
    /\ engines[i].st # "idle"
    /\ LET eng == IF EndRestartsNow(i)
                  THEN AfterStart(SetSt(engines, i, "idle"), RestartTarget(i), throws)
                  ELSE SetSt(engines, i, "idle")
           gc == Collect(eng, ref)
       IN  /\ engines' = gc.engines
           /\ ref' = gc.ref
    /\ constructed' = FALSE
    /\ timers' = IF variant = "C"
                 THEN IF EndClosureListening(i)
                      THEN timers \cup {"restart"} ELSE timers \ {"restart"}
                 ELSE timers
    /\ interim' = Set(interim, IF HasInterim(variant) THEN FALSE ELSE interim)
    /\ lastOp' = IF engines[i].st = "running" THEN "endOwn" ELSE "end"
    /\ ev' = <<>>
    /\ UNCHANGED clk
    /\ startCalled' = (EndRestartsNow(i) /\ RestartTarget(i) # 0)
    /\ uncaught' = FALSE
    /\ quick' = NotImmediate
    /\ UNCHANGED <<variant, capable, mounted, supported, listening, word, spelled,
                   history, error, errSince, fresh>>

(***************************************************************************)
(* A pending timer fires: the debounce clears interim, the delayed restart *)
(* calls recognitionRef.current?.start() inside try/catch.  The debounce   *)
(* fires 2 s after the last non-empty interim result; lastOp is "elapsed"  *)
(* when nothing has superseded that result.                                *)
(***************************************************************************)
TimerFire(t, throws) ==
    /\ t \in timers
    /\ timers' = timers \ {t}
    /\ interim' = IF t = "debounce" THEN Set(interim, FALSE) ELSE interim
    /\ engines' = IF t = "restart" THEN AfterStart(engines, ref, throws) ELSE engines
    /\ lastOp' = IF t = "debounce" /\ fresh THEN "elapsed" ELSE t
    /\ fresh' = IF t = "debounce" THEN FALSE ELSE fresh
    /\ ev' = <<>>
    /\ UNCHANGED clk
    /\ constructed' = FALSE
    /\ startCalled' = (t = "restart" /\ ref # 0)
    /\ uncaught' = FALSE
    /\ quick' = NotImmediate
    /\ UNCHANGED <<variant, capable, mounted, supported, listening, word, spelled,
                   history, error, ref, errSince>>

(***************************************************************************)
(* Unmount: React runs the cleanup of the last effect, where there is one. *)
(***************************************************************************)
Unmount ==
    /\ mounted
    /\ mounted' = FALSE
    /\ engines' = IF CleanupAborts(variant) THEN AfterStop(engines, ref) ELSE engines
    /\ timers' = IF CleanupClearsRestart(variant) THEN timers \ {"restart"} ELSE timers
    /\ lastOp' = "unmount"
    /\ ev' = <<>>
    /\ UNCHANGED clk
    /\ constructed' = FALSE
    /\ startCalled' = FALSE
    /\ uncaught' = FALSE
    /\ quick' = NotImmediate
    /\ UNCHANGED <<variant, capable, supported, listening, word, spelled, history,
                   interim, error, ref, errSince, fresh>>

(***************************************************************************)
(* 2 s pass after the last non-empty interim result, nothing having        *)
(* superseded it, where no countdown was armed (A has no timeoutRef): no   *)
(* code runs.                                                              *)
(***************************************************************************)
Elapse ==
    /\ fresh
    /\ "debounce" \notin timers
    /\ fresh' = FALSE
    /\ lastOp' = "elapsed"
    /\ ev' = <<>>
    /\ UNCHANGED clk
    /\ constructed' = FALSE
    /\ startCalled' = FALSE
    /\ uncaught' = FALSE
    /\ quick' = NotImmediate
    /\ UNCHANGED <<variant, capable, mounted, supported, listening, word, spelled,
                   history, interim, error, engines, ref, timers, errSince>>

Next ==
    \/ \E throws \in BOOLEAN : ToggleStart(throws)
    \/ \E throws \in BOOLEAN : ToggleStop(throws)
    \/ Clear
    \/ \E i \in 1..Len(engines) : \E results \in EventLists(variant) :
           OnResult(i, results) /\ ev' = <<>> /\ UNCHANGED clk
    \/ \E i \in 1..Len(engines) : OnError(i)
    \/ \E i \in 1..Len(engines) : \E throws \in BOOLEAN : OnEnd(i, throws)
    \/ \E t \in {"debounce", "restart"} : \E throws \in BOOLEAN : TimerFire(t, throws)
    \/ Unmount
    \/ Elapse

Spec == Init /\ [][Next]_vars

(***************************************************************************)
(* The data specification: the widget is started and its result handler    *)
(* receives events over DataTranscripts; ev records the event delivered.   *)
(***************************************************************************)
NextData ==
    \/ \E throws \in BOOLEAN : ToggleStart(throws)
    \/ \E i \in 1..Len(engines) : \E results \in DataLists(variant) :
           OnResult(i, results) /\ ev' = results /\ UNCHANGED clk

SpecData == Init /\ [][NextData]_vars

(***************************************************************************)
(* The timed specification: the widget is started, its result handler      *)
(* receives events, and time passes in steps of one second.  A countdown   *)
(* armed by setTimeout(..., 2000) is due when its age is DebounceSeconds,  *)
(* and time does not pass beyond a due countdown.                          *)
(***************************************************************************)
\* the interim branch arming a countdown without clearTimeout(timeoutRef.current)
ResultClockNoCancel(results) ==
    IF InterimSeen(results)
    THEN [cd |-> IF HasDebounce(variant) THEN Append(clk.cd, 0) ELSE clk.cd,
          since |-> 0, cancelled |-> FALSE]
    ELSE [clk EXCEPT !.cancelled = FALSE]

\* the countdowns after onresult: the interim branch with a non-empty text
\* clears the countdown timeoutRef refers to and arms a new one
ResultClock(results) ==
    IF InterimSeen(results)
    THEN [cd |-> IF HasDebounce(variant)
                 THEN (IF clk.cd = <<>> THEN <<>>
                       ELSE SubSeq(clk.cd, 1, Len(clk.cd) - 1)) \o <<0>>
                 ELSE clk.cd,
          since |-> 0,
          cancelled |-> HasDebounce(variant) /\ clk.cd # <<>>]
    ELSE [clk EXCEPT !.cancelled = FALSE]

\* the callback of countdown k runs: setInterim(false)
CountdownFire(k) ==
    /\ clk.cd[k] = DebounceSeconds
    /\ LET rest == SubSeq(clk.cd, 1, k - 1) \o SubSeq(clk.cd, k + 1, Len(clk.cd))
       IN  /\ clk' = [clk EXCEPT !.cd = rest, !.cancelled = FALSE]
           /\ timers' = IF rest = <<>> THEN timers \ {"debounce"} ELSE timers
    /\ interim' = Set(interim, FALSE)
    /\ fresh' = FALSE
    /\ lastOp' = "countdown"
    /\ ev' = <<>>
    /\ constructed' = FALSE
    /\ startCalled' = FALSE
    /\ uncaught' = FALSE
    /\ quick' = NotImmediate
    /\ UNCHANGED <<variant, capable, mounted, supported, listening, word, spelled,
                   history, error, engines, ref, errSince>>

\* one second passes
Tick ==
    /\ \A k \in 1..Len(clk.cd) : clk.cd[k] < DebounceSeconds
    /\ clk' = [cd |-> [k \in 1..Len(clk.cd) |-> clk.cd[k] + 1],
               since |-> IF clk.since < DebounceSeconds THEN clk.since + 1
                         ELSE DebounceSeconds,
               cancelled |-> FALSE]
    /\ lastOp' = "tick"
    /\ ev' = <<>>
    /\ constructed' = FALSE
    /\ startCalled' = FALSE
    /\ uncaught' = FALSE
    /\ quick' = NotImmediate
    /\ UNCHANGED <<variant, capable, mounted, supported, listening, word, spelled,
                   history, interim, error, engines, ref, timers, errSince, fresh>>

NextTime ==
    \/ \E throws \in BOOLEAN : ToggleStart(throws)
    \/ \E i \in 1..Len(engines) : \E results \in EventLists(variant) :
           OnResult(i, results) /\ ev' = results /\ clk' = ResultClock(results)
    \/ \E k \in 1..Len(clk.cd) : CountdownFire(k)
    \/ Tick

SpecTime == Init /\ [][NextTime]_vars

(***************************************************************************)
(* The claims.                                                             *)
(***************************************************************************)
Running(i) == engines[i].st = "running"

\* C1: when an engine the widget started ends on its own (it was running: no
\* stop, abort or error since its start) while listening is true, the end
\* callback requests a start: at once, or in variant C by arming the delayed
\* restart.
C1_EndRestarts ==
    (mounted /\ lastOp = "endOwn" /\ listening)
        => (startCalled \/ (variant = "C" /\ "restart" \in timers))

\* C2: after toggleListening has taken its stop branch (stop() returned), no
\* engine instance is still running without having received stop() or abort().
C2_StopReachesStartedEngine ==
    lastOp = "toggleStop" => \A i \in 1..Len(engines) : ~Running(i)

\* C3: after the mount no step constructs an engine instance (and so none
\* replaces the instance that recognitionRef holds).
C3_OneEngine ==
    lastOp # "mount" => ~constructed

\* C4: after teardown no engine instance is still running without having
\* received stop() or abort().
C4_TeardownStopsEngines ==
    ~mounted => \A i \in 1..Len(engines) : ~Running(i)

\* C5: in variants C and D no timer (debounce countdown, delayed restart) is
\* pending after teardown.
C5_TeardownCancelsTimers ==
    (~mounted /\ variant \in {"C", "D"}) => timers = {}

\* C6: after a start toggle followed at once by a stop toggle, listening is
\* false, no delayed restart is pending and no handler calls start(), until
\* toggleListening is invoked again.
C6_QuickToggle ==
    quick = 2 => (~listening /\ "restart" \notin timers /\ ~startCalled)

\* C7: when start() throws inside the start branch of toggleListening, the
\* exception stays inside, listening and interim are false and the error is
\* the variant's start-failure text.
C7_StartFailure ==
    lastOp = "toggleStartThrow" =>
        /\ ~uncaught
        /\ ~listening
        /\ ~interim
        /\ error = IF variant = "B" THEN "Failed to start recognition"
                   ELSE "Failed to start"

C7_Witness ==
    /\ lastOp = "toggleStartThrow"
    /\ variant = "C"
    /\ error = "Failed to start"
    /\ Len(engines) > 1

\* C8: when stop() throws inside the stop branch of toggleListening, the
\* exception stays inside and listening is false afterwards.
C8_StopFailureRecovered ==
    lastOp = "toggleStopThrow" => (~uncaught /\ ~listening)

C10_NoRestartAfterError ==
    errSince => (~startCalled /\ "restart" \notin timers)

C10_Witness ==
    /\ errSince
    /\ lastOp = "end"
    /\ error = "Error occurred"
    /\ ~listening
    /\ \A i \in 1..Len(engines) : engines[i].st = "idle"

\* C11: after the error callback (of a mounted widget) the error message is
\* the variant's generic error text ("Error occurred during recognition" in B,
\* "Error occurred" in A, C, D), listening is false, and in A, C, D interim is
\* false.
C11_ErrorCallback ==
    (lastOp = "error" /\ mounted) =>
        /\ error = (IF variant = "B" THEN "Error occurred during recognition"
                                     ELSE "Error occurred")
        /\ ~listening
        /\ (variant \in {"A", "C", "D"} => ~interim)

\* the error callback has run in variant B, its end callback is still to come
C11_Witness ==
    /\ lastOp = "error"
    /\ mounted
    /\ error = "Error occurred during recognition"
    /\ ~listening
    /\ \E i \in 1..Len(engines) : engines[i].st = "failed"

\* C13: in variants A and C history holds at most MAX_HISTORY (5) entries in
\* every reachable state.
C13_HistoryBounded ==
    variant \in {"A", "C"} => Len(history) <= 5

\* a final word has just been put in front of a full history
C13_Witness ==
    /\ variant \in {"A", "C"}
    /\ lastOp = "result"
    /\ Len(history) = 5
    /\ word = history[1]
    /\ history[1] # history[5]

\* C16: in variants A, C and D, once 2 s have passed since the last non-empty
\* interim result with no final result, error or explicit stop in between,
\* interim is false.
C16_InterimExpires ==
    (lastOp = "elapsed" /\ mounted /\ variant \in {"A", "C", "D"}) => ~interim

\* C17: in variants A, C and D interim is true only if a non-final result
\* arrived within the last 2 s and no final result, error or explicit stop
\* has occurred since.
C17_InterimOnlyWhileFresh ==
    (mounted /\ variant \in {"A", "C", "D"} /\ interim) => fresh

\* C18: toggleListening called with listening false and start() succeeding
\* leaves the error message empty, the current word empty, interim true
\* (A, C, D) and listening true.
C18_StartClearsState ==
    lastOp = "toggleStart" =>
        /\ error = ""
        /\ word = <<>>
        /\ (variant \in {"A", "C", "D"} => interim)
        /\ listening

\* C14: in variants A and C, a final result whose trimmed transcript is not
\* empty makes history[0] the title-cased word just finalized, followed by
\* the previous history in unchanged order, cut at the tail to 5 entries.
C14_HistoryPush ==
    [][(/\ variant \in {"A", "C"}
        /\ lastOp' = "result"
        /\ ev' # <<>>
        /\ ev'[Len(ev')].isFinal
        /\ Trim(ev'[Len(ev')].transcript) # <<>>)
       => LET t == Trim(ev'[Len(ev')].transcript)
          IN  /\ Len(history') = (IF Len(history) < 5 THEN Len(history) + 1 ELSE 5)
              /\ Len(history'[1]) = Len(t)
              /\ history'[1][1] = toUpperCase(t[1])
              /\ \A k \in 2..Len(t) : history'[1][k] = toLowerCase(t[k])
              /\ \A k \in 2..Len(history') : history'[k] = history[k - 1]]_vars

\* "Hello world" finalized on top of a full history whose oldest entry left
C14_Witness ==
    /\ variant \in {"A", "C"}
    /\ lastOp = "result"
    /\ ev = <<[isFinal |-> TRUE, transcript |-> HelloWorld]>>
    /\ Len(history) = 5
    /\ history[1] = <<"H", "e", "l", "l", "o", " ", "w", "o", "r", "l", "d">>
    /\ history[2] = <<"B">>
    /\ history[5] = <<"A", "b">>

\* C15 as stated: in variants A, C and D, after a final result event the
\* current word is the title-cased trimmed transcript of that event.
C15_WordIsFinal ==
    (/\ variant \in {"A", "C", "D"}
     /\ lastOp = "result"
     /\ ev # <<>>
     /\ ev[Len(ev)].isFinal)
    => word = TitleCase(Trim(ev[Len(ev)].transcript))

\* C15 amended: in variants A, C and D, after a final result event whose
\* trimmed transcript is not empty the current word is that transcript with
\* its first character in upper case and the remainder in lower case,
\* whatever interim events came before.
C15_WordIsNonEmptyFinal ==
    (/\ variant \in {"A", "C", "D"}
     /\ lastOp = "result"
     /\ ev # <<>>
     /\ ev[Len(ev)].isFinal
     /\ Trim(ev[Len(ev)].transcript) # <<>>)
    => LET t == Trim(ev[Len(ev)].transcript)
       IN  /\ Len(word) = Len(t)
           /\ word[1] = toUpperCase(t[1])
           /\ \A k \in 2..Len(t) : word[k] = toLowerCase(t[k])

\* a final " b " after an interim event whose countdown is still pending
C15_Witness ==
    /\ variant \in {"C", "D"}
    /\ lastOp = "result"
    /\ ev = <<[isFinal |-> TRUE, transcript |-> <<" ", "b", " ">>]>>
    /\ "debounce" \in timers
    /\ word = <<"B">>
    /\ ~interim

\* C19: in variant B a result event whose only entry is final with
\* transcript "hello world" leaves the displayed word "Hello world" and the
\* spelled text "H E L L O   W O R L D".
C19_HelloWorld ==
    (/\ variant = "B"
     /\ lastOp = "result"
     /\ ev = <<[isFinal |-> TRUE, transcript |-> HelloWorld]>>)
    => /\ word = <<"H", "e", "l", "l", "o", " ", "w", "o", "r", "l", "d">>
       /\ spelled = <<"H", " ", "E", " ", "L", " ", "L", " ", "O", " ", " ", " ",
                      "W", " ", "O", " ", "R", " ", "L", " ", "D">>

\* C20 as stated: in variant B the transcript after a result event is the
\* concatenation, in list order, of the entries from the last final entry of
\* the list (the first one met scanning from the most recent) to the end;
\* older entries contribute nothing.
C20_FoldUpToFirstFinal ==
    (variant = "B" /\ lastOp = "result" /\ ev # <<>>)
    => LET F == {k \in 1..Len(ev) : ev[k].isFinal}
           from == IF F = {} THEN 1 ELSE CHOOSE k \in F : \A j \in F : j <= k
           cat[k \in (from - 1)..Len(ev)] ==
               IF k = from - 1 THEN <<>> ELSE cat[k - 1] \o ev[k].transcript
       IN  word = cat[Len(ev)]

\* C20 amended: in variant B the transcript after a result event is the
\* concatenation, in list order, of all final entries of the list, or, when
\* that concatenation is empty, of all its non-final entries.
C20_FoldAllFinals ==
    (variant = "B" /\ lastOp = "result" /\ ev # <<>>)
    => LET cat[k \in 0..Len(ev)] ==
               IF k = 0 THEN [f |-> <<>>, n |-> <<>>]
               ELSE IF ev[k].isFinal
                    THEN [cat[k - 1] EXCEPT !.f = @ \o ev[k].transcript]
                    ELSE [cat[k - 1] EXCEPT !.n = @ \o ev[k].transcript]
       IN  word = (IF cat[Len(ev)].f # <<>> THEN cat[Len(ev)].f
                                            ELSE cat[Len(ev)].n)

\* two final entries and both are in the transcript, in list order
C20_Witness ==
    /\ variant = "B"
    /\ lastOp = "result"
    /\ ev = <<[isFinal |-> TRUE, transcript |-> <<"a", "B">>],
              [isFinal |-> TRUE, transcript |-> HelloWorld]>>
    /\ word = <<"a", "B", "h", "e", "l", "l", "o", " ", "w", "o", "r", "l", "d">>

\* C21: in variants B and D the spelled form is the variant's spelling of the
\* current word in every reachable state: in B the characters of the trimmed
\* transcript in upper case with one space between them, in D the characters
\* of the word with two spaces between them; it is empty exactly when the
\* (trimmed) word is empty.
C21_SpelledFollowsWord ==
    /\ variant = "B" =>
          LET t == Trim(word)
          IN  /\ (spelled = <<>>) <=> (t = <<>>)
              /\ t # <<>> => Len(spelled) = 2 * Len(t) - 1
              /\ \A k \in 1..Len(t) : spelled[2 * k - 1] = toUpperCase(t[k])
              /\ \A k \in 1..(Len(t) - 1) : spelled[2 * k] = " "
    /\ variant = "D" =>
          /\ (spelled = <<>>) <=> (word = <<>>)
          /\ word # <<>> => Len(spelled) = 3 * Len(word) - 2
          /\ \A k \in 1..Len(word) : spelled[3 * k - 2] = word[k]
          /\ \A k \in 1..(Len(word) - 1) :
                 spelled[3 * k - 1] = " " /\ spelled[3 * k] = " "

\* B has spelled a transcript of two entries that starts with a space
C21_Witness ==
    /\ variant = "B"
    /\ lastOp = "result"
    /\ word = <<" ", "b", " ", "a", "B">>
    /\ spelled = <<"B", " ", " ", " ", "A", " ", "B">>

\* C22: in variants C and D a non-empty interim result clears the pending
\* countdown and arms a new one, so at most one countdown is pending; the
\* countdown clears interim no earlier than 2 s after the last non-empty
\* interim result; an interim result whose trimmed text is empty changes
\* neither interim nor the countdown.
C22_Debounce ==
    [][(variant \in {"C", "D"}) =>
          (/\ Len(clk'.cd) <= 1
           /\ (lastOp' = "result" /\ ev' # <<>> /\ ~ev'[Len(ev')].isFinal) =>
                  (IF Trim(ev'[Len(ev')].transcript) # <<>>
                   THEN interim' /\ clk'.cd = <<0>>
                   ELSE interim' = interim /\ clk'.cd = clk.cd)
           /\ (lastOp' = "countdown") => (clk.since >= 2 /\ ~interim'))]_vars

\* a non-empty interim result has cleared a countdown one second old
C22_Witness ==
    /\ variant \in {"C", "D"}
    /\ lastOp = "result"
    /\ ev = <<[isFinal |-> FALSE, transcript |-> <<"a", "B">>]>>
    /\ clk = [cd |-> <<0>>, since |-> 0, cancelled |-> TRUE]
    /\ interim

\* C23: in the state a successful start leaves (listening true, no end or
\* error callback delivered yet), the engine instance that was started is
\* still running and is the instance recognitionRef holds.
C23_StartedEngineKept ==
    (mounted /\ listening /\ lastOp = "toggleStart")
        => (ref # 0 /\ engines[ref].st = "running")

\* C25: in variants A, C and D interim is true only while listening is true.
C25_InterimImpliesListening ==
    (mounted /\ variant \in {"A", "C", "D"} /\ interim) => listening

====
